---- MODULE Spec2Model ----
(***************************************************************************)
(* Telemetry ingestion and live-state distribution pipeline of             *)
(* iiot_system.py: the SQLite durable log (db_init / db_insert /           *)
(* db_latest), the MQTT subscriber that ingests messages into it, the      *)
(* OPC UA server that mirrors the newest row, the publisher and the        *)
(* dashboard reader.                                                       *)
(*                                                                         *)
(* Values.  A Python / JSON / SQLite value is a record [k, n, s]: k is its *)
(* kind, n its number, s its text.  A float is kept in tenths (24.5 is     *)
(* n = 245), an int as itself, so that float(24) = 24.0 is the visible     *)
(* conversion 24 -> 240 and never the identity.                            *)
(***************************************************************************)
EXTENDS Integers, Sequences, FiniteSets, TLC

\* ---------------------------------------------------------------- bounds
MaxLog == 3        \* rows the log may hold before appends are cut off
MaxInbox == 1      \* messages the broker queues per subscriber
MaxN == 3          \* largest n of a direct db_latest(n) call
MaxInflight == 2   \* messages the publisher's client holds unacknowledged

\* ---------------------------------------------------------------- values
Str(t) == [k |-> "str", n |-> 0, s |-> t]
IntV(i) == [k |-> "int", n |-> i, s |-> ""]
FloatV(tenths) == [k |-> "float", n |-> tenths, s |-> ""]
BoolV(b) == [k |-> "bool", n |-> IF b THEN 1 ELSE 0, s |-> ""]
NoneV == [k |-> "none", n |-> 0, s |-> ""]
ListV == [k |-> "list", n |-> 0, s |-> ""]
NaNV == [k |-> "nan", n |-> 0, s |-> ""]
BigIntV == [k |-> "bigint", n |-> 0, s |-> ""]

\* SQLite storage classes
SqlText(t) == [k |-> "text", n |-> 0, s |-> t]
SqlInteger(i) == [k |-> "integer", n |-> i, s |-> ""]
SqlReal(tenths) == [k |-> "real", n |-> tenths, s |-> ""]
SqlNull == [k |-> "null", n |-> 0, s |-> ""]

\* Decimal text of a natural number (SQLite's and Python's rendering).
DigitText(d) == CASE d = 0 -> "0" [] d = 1 -> "1" [] d = 2 -> "2" [] d = 3 -> "3"
                  [] d = 4 -> "4" [] d = 5 -> "5" [] d = 6 -> "6" [] d = 7 -> "7"
                  [] d = 8 -> "8" [] OTHER -> "9"

RECURSIVE NatText(_)
NatText(i) == IF i < 10 THEN DigitText(i)
              ELSE NatText(i \div 10) \o DigitText(i % 10)

\* Text of a float kept in tenths: 245 -> "24.5", 240 -> "24.0".
RealText(tenths) == NatText(tenths \div 10) \o "." \o DigitText(tenths % 10)

\* The strings of the model that Python's float() parses, with their value
\* in tenths; every other string raises ValueError.
NumericStrings == {"24.5", "7"}
ParseTenths(t) == IF t = "24.5" THEN 245 ELSE 70

\* float(v), line 153-154 and 192-193: exc names the raised exception, "" is
\* none.  An int, a bool and a numeric string convert; None and a list raise
\* TypeError, any other string ValueError, an int beyond the float range
\* OverflowError.
float(v) ==
    CASE v.k = "float" -> [exc |-> "", v |-> v]
      [] v.k = "int" -> [exc |-> "", v |-> FloatV(10 * v.n)]
      [] v.k = "bool" -> [exc |-> "", v |-> FloatV(10 * v.n)]
      [] v.k = "nan" -> [exc |-> "", v |-> v]
      [] v.k = "str" /\ v.s \in NumericStrings ->
            [exc |-> "", v |-> FloatV(ParseTenths(v.s))]
      [] v.k = "str" -> [exc |-> "ValueError", v |-> NoneV]
      [] v.k = "bigint" -> [exc |-> "OverflowError", v |-> NoneV]
      [] OTHER -> [exc |-> "TypeError", v |-> NoneV]

\* str(v) of the values a row can hold, line 194.
str(v) == CASE v.k = "str" -> v
            [] v.k = "int" -> Str(NatText(v.n))
            [] v.k = "float" -> Str(RealText(v.n))
            [] OTHER -> Str("None")

\* ------------------------------------------------------------ state
Ingestors == {"sub-a", "sub-b"}

VARIABLES
    storeUp,      \* the database file can be opened, read and written
    tables,       \* how many telemetry schemas the database holds
    telemetry     \* the rows of table telemetry, in commit order

storeVars == <<storeUp, tables, telemetry>>

VARIABLES
    sub_pc,       \* where each run_subscriber is: start, made, connected,
                  \* loop (inside loop_forever), aborted (an error at
                  \* startup), crashed (an error left loop_forever),
                  \* interrupted (KeyboardInterrupt left the function)
    sub_conn,     \* the client's connection to the broker is up
    subscribed,   \* the broker holds the client's subscription to MQTT_TOPIC
    inbox,        \* messages the broker has queued for the client
    sub_log       \* the last line each subscriber logged

subVars == <<sub_pc, sub_conn, subscribed, inbox, sub_log>>

VARIABLES
    h_pc,         \* where each subscriber's on_message call is: idle (no call
                  \* in progress), decode (line 150), validate (line
                  \* 151-154), append (line 155-156)
    h_msg,        \* msg, the argument of the call in progress
    h_taken,      \* history: the messages loop_forever has taken, in order
    h_done        \* history: per finished call the id of the row it
                  \* committed, 0 if it committed none

handVars == <<h_pc, h_msg, h_taken, h_done>>

VARIABLES
    m_pc,         \* where run_opcua_server is: start, inited, poll,
                  \* set_temp, set_hum, set_sensor, sleep, aborted (an error
                  \* at startup), crashed (an error left the loop), stopped
    serving,      \* the OPC UA server is started
    m_rows,       \* rows, the result of db_latest(1) (line 189)
    v_temp,       \* the value of node Temperature
    v_hum,        \* the value of node Humidity
    v_sensor,     \* the value of node Sensor
    m_seen,       \* history: how many rows the log held at the last poll
    ext_written,  \* history: an OPC UA client wrote a node since that poll
    m_over        \* history: the server has replaced a value a client wrote

mirrorVars == <<m_pc, serving, m_rows, v_temp, v_hum, v_sensor, m_seen,
                ext_written, m_over>>

VARIABLES
    pub_pc,       \* where run_publisher is: start, made, loop, sleep,
                  \* aborted (an error at startup), stopped
    pub_conn,     \* the client's connection to the broker is up
    pub_unacked,  \* QoS 1 messages sent whose PUBACK is not yet handled
    pub_queued,   \* messages publish() kept for when the connection is back
    pub_log       \* the last line the publisher logged

pubVars == <<pub_pc, pub_conn, pub_unacked, pub_queued, pub_log>>

VARIABLES
    d_pc,         \* where run_dashboard is: start, inited, shown, aborted
    d_data,       \* data, the rows of db_latest(n) (line 211)
    d_ts,         \* ts (line 214)
    d_temps,      \* temps (line 215)
    d_hums        \* hums (line 216)

dashVars == <<d_pc, d_data, d_ts, d_temps, d_hums>>

VARIABLES
    q_n,          \* the n of the last direct db_latest(n) call
    q_rows        \* what that call returned

queryVars == <<q_n, q_rows>>

\* What each component leaves alone.
exceptSub == <<mirrorVars, pubVars, dashVars, queryVars, handVars>>
exceptHandler == <<mirrorVars, pubVars, dashVars, queryVars>>
exceptMirror == <<subVars, pubVars, dashVars, queryVars, handVars>>
exceptPub == <<sub_pc, sub_conn, subscribed, sub_log, mirrorVars, dashVars,
               queryVars, handVars>>
exceptDash == <<subVars, mirrorVars, pubVars, queryVars, handVars>>
exceptQuery == <<subVars, mirrorVars, pubVars, dashVars, handVars>>

vars == <<storeVars, subVars, mirrorVars, pubVars, dashVars, queryVars,
          handVars>>

\* ------------------------------------------------------------ SQLite store

\* sqlite3's binding of a Python parameter, line 78-81: a NaN float is bound
\* as NULL; a list, a dict or an int beyond 64 bits is refused.
Bind(v) ==
    CASE v.k = "str" -> [ok |-> TRUE, v |-> SqlText(v.s)]
      [] v.k = "int" -> [ok |-> TRUE, v |-> SqlInteger(v.n)]
      [] v.k = "bool" -> [ok |-> TRUE, v |-> SqlInteger(v.n)]
      [] v.k = "float" -> [ok |-> TRUE, v |-> SqlReal(v.n)]
      [] v.k = "nan" -> [ok |-> TRUE, v |-> SqlNull]
      [] v.k = "none" -> [ok |-> TRUE, v |-> SqlNull]
      [] OTHER -> [ok |-> FALSE, v |-> SqlNull]

\* Column affinity TEXT (ts, sensor), line 62-63: a number is stored as text.
TextAffinity(x) ==
    CASE x.k = "integer" -> SqlText(NatText(x.n))
      [] x.k = "real" -> SqlText(RealText(x.n))
      [] OTHER -> x

\* Column affinity REAL (temperature, humidity), line 64-65.
RealAffinity(x) ==
    CASE x.k = "integer" -> SqlReal(10 * x.n)
      [] x.k = "text" /\ x.s \in NumericStrings -> SqlReal(ParseTenths(x.s))
      [] OTHER -> x

RECURSIVE MaxId(_)
MaxId(rows) == IF rows = <<>> THEN 0
               ELSE LET m == MaxId(Tail(rows))
                    IN IF Head(rows).id > m THEN Head(rows).id ELSE m

\* id INTEGER PRIMARY KEY AUTOINCREMENT, line 61: one more than the largest
\* id the table has ever held (nothing deletes, so the largest it holds).
AutoIncrement(rows) == MaxId(rows) + 1

\* Mutant: temperature and humidity bound in the wrong order.
NewRow_swapped(rows, ts, sensor, temperature, humidity) ==
    [id |-> AutoIncrement(rows),
     ts |-> TextAffinity(Bind(ts).v),
     sensor |-> TextAffinity(Bind(sensor).v),
     temperature |-> RealAffinity(Bind(humidity).v),
     humidity |-> RealAffinity(Bind(temperature).v)]

\* The row INSERT builds from the bound parameters, line 78-81.
NewRow(rows, ts, sensor, temperature, humidity) ==
    [id |-> AutoIncrement(rows),
     ts |-> TextAffinity(Bind(ts).v),
     sensor |-> TextAffinity(Bind(sensor).v),
     temperature |-> RealAffinity(Bind(temperature).v),
     humidity |-> RealAffinity(Bind(humidity).v)]

\* The four columns are NOT NULL, line 62-65.
NotNullOk(row) ==
    /\ row.ts.k # "null"
    /\ row.sensor.k # "null"
    /\ row.temperature.k # "null"
    /\ row.humidity.k # "null"

\* Mutant: the insert replaces the rows of the table.
db_insert_replace(rows, up, ntables, ts, sensor, temperature, humidity) ==
    LET bound == Bind(ts).ok /\ Bind(sensor).ok
                 /\ Bind(temperature).ok /\ Bind(humidity).ok
        row == NewRow(rows, ts, sensor, temperature, humidity)
    IN IF up /\ ntables > 0 /\ bound /\ NotNullOk(row)
       THEN [ok |-> TRUE, rows |-> <<row>>, ret |-> NoneV]
       ELSE [ok |-> FALSE, rows |-> rows, ret |-> NoneV]

SamePayload(a, b) == /\ a.ts = b.ts /\ a.sensor = b.sensor
                     /\ a.temperature = b.temperature
                     /\ a.humidity = b.humidity

\* Mutant: a row whose payload the table already holds is not inserted.
db_insert_dedup(rows, up, ntables, ts, sensor, temperature, humidity) ==
    LET bound == Bind(ts).ok /\ Bind(sensor).ok
                 /\ Bind(temperature).ok /\ Bind(humidity).ok
        row == NewRow(rows, ts, sensor, temperature, humidity)
    IN IF up /\ ntables > 0 /\ bound /\ NotNullOk(row)
       THEN [ok |-> TRUE,
             rows |-> IF \E j \in DOMAIN rows : SamePayload(rows[j], row)
                      THEN rows ELSE Append(rows, row),
             ret |-> NoneV]
       ELSE [ok |-> FALSE, rows |-> rows, ret |-> NoneV]

\* db_insert, line 73-84, as one transaction.  [ok |-> FALSE] is a raised
\* sqlite3 error (cannot open, no such table, binding refused, constraint
\* failed): the finally clause closes the connection, which rolls back.
\* ret is what the function returns: it has no return statement.
db_insert(rows, up, ntables, ts, sensor, temperature, humidity) ==
    LET bound == Bind(ts).ok /\ Bind(sensor).ok
                 /\ Bind(temperature).ok /\ Bind(humidity).ok
        row == NewRow(rows, ts, sensor, temperature, humidity)
    IN IF up /\ ntables > 0 /\ bound /\ NotNullOk(row)
       THEN [ok |-> TRUE, rows |-> Append(rows, row), ret |-> NoneV]
       ELSE [ok |-> FALSE, rows |-> rows, ret |-> NoneV]

\* What sqlite3 hands back for a stored value.
FromSql(x) == CASE x.k = "text" -> Str(x.s)
                [] x.k = "real" -> FloatV(x.n)
                [] x.k = "integer" -> IntV(x.n)
                [] OTHER -> NoneV

\* SELECT ts, sensor, temperature, humidity, line 91.
Columns(row) == <<FromSql(row.ts), FromSql(row.sensor),
                  FromSql(row.temperature), FromSql(row.humidity)>>

\* The row of the largest id.
MaxRow(rows) == CHOOSE r \in {rows[i] : i \in DOMAIN rows} : r.id = MaxId(rows)

Without(rows, r) == SelectSeq(rows, LAMBDA x : x # r)

\* Mutant: ORDER BY id ASC.
RECURSIVE OrderByIdAsc(_, _)
OrderByIdAsc(rows, n) ==
    IF rows = <<>> \/ n = 0 THEN <<>>
    ELSE <<Columns(Head(rows))>> \o OrderByIdAsc(Tail(rows), n - 1)

\* Mutant: the LIMIT is one too large.
RECURSIVE OrderByIdDesc_limit(_, _)
OrderByIdDesc_limit(rows, n) ==
    IF rows = <<>> \/ n = -1 THEN <<>>
    ELSE <<Columns(MaxRow(rows))>>
         \o OrderByIdDesc_limit(Without(rows, MaxRow(rows)), n - 1)

\* ORDER BY id DESC LIMIT n, line 91: a negative LIMIT is no limit.
RECURSIVE OrderByIdDesc(_, _)
OrderByIdDesc(rows, n) ==
    IF rows = <<>> \/ n = 0 THEN <<>>
    ELSE <<Columns(MaxRow(rows))>>
         \o OrderByIdDesc(Without(rows, MaxRow(rows)), n - 1)

\* db_latest, line 86-94: [ok |-> FALSE] is a raised sqlite3 error.
db_latest(rows, up, ntables, n) ==
    IF up /\ ntables > 0
    THEN [ok |-> TRUE, rows |-> OrderByIdDesc(rows, n)]
    ELSE [ok |-> FALSE, rows |-> <<>>]

\* Mutant: CREATE TABLE without IF NOT EXISTS.
db_init_create(up, ntables) ==
    IF ~up THEN [err |-> "unavailable", tables |-> ntables]
    ELSE IF ntables = 0 THEN [err |-> "", tables |-> ntables + 1]
    ELSE [err |-> "exists", tables |-> ntables]

\* Mutant: db_init swallows the error of a database it cannot open.
db_init_quiet(up, ntables) ==
    IF ~up THEN [err |-> "", tables |-> ntables]
    ELSE IF ntables = 0 THEN [err |-> "", tables |-> ntables + 1]
    ELSE [err |-> "", tables |-> ntables]

\* db_init, line 53-71: CREATE TABLE IF NOT EXISTS is one statement, run by
\* SQLite under its own lock: it creates the schema when there is none and
\* does nothing when there is one.  err names the raised error, "" is none.
db_init(up, ntables) ==
    IF ~up THEN [err |-> "unavailable", tables |-> ntables]
    ELSE IF ntables = 0 THEN [err |-> "", tables |-> ntables + 1]
    ELSE [err |-> "", tables |-> ntables]

\* ------------------------------------------------------------ wire messages
AllKeys == {"ts", "sensor", "temperature", "humidity"}

\* An MQTT payload: enc says whether the bytes are UTF-8, syn whether the text
\* is JSON, top what the JSON text encodes, keys which keys a mapping holds;
\* the value of an absent key is unused.
Msg(ts, sensor, temperature, humidity) ==
    [enc |-> "utf8", syn |-> "json", top |-> "object", keys |-> AllKeys,
     ts |-> ts, sensor |-> sensor, temperature |-> temperature,
     humidity |-> humidity]

T0 == Str("2024-01-01T00:00:00")
T2 == Str("2024-01-01T00:00:02")
S1 == Str("sensor-001")

NoMsg == [Msg(NoneV, NoneV, NoneV, NoneV) EXCEPT !.top = "none", !.keys = {}]

\* What run_publisher can emit (line 123-127): a text ts, the sensor name and
\* two numbers; json.dumps writes a float.
Reading0 == Msg(T0, S1, FloatV(245), FloatV(550))
Reading2 == Msg(T2, S1, FloatV(301), FloatV(550))
PublisherMsgs == {Reading0, Reading2}

\* Another publisher's reading, its temperature a JSON integer.
ReadingInt == Msg(T2, S1, IntV(24), FloatV(613))

\* Valid wire format: text ts and sensor, JSON numbers for the readings.
ValidMsgs == PublisherMsgs \cup {ReadingInt}

\* Mappings with all four keys of which one has another type than the wire
\* format names.
MistypedMsgs == {Msg(T0, S1, Str("24.5"), FloatV(550)),
                 Msg(T0, S1, Str("abc"), FloatV(550)),
                 Msg(T0, S1, FloatV(245), NoneV),
                 Msg(T0, S1, FloatV(245), BoolV(TRUE)),
                 Msg(T0, S1, NaNV, FloatV(550)),
                 Msg(T0, S1, BigIntV, FloatV(550)),
                 Msg(IntV(123), S1, FloatV(245), FloatV(550)),
                 Msg(T0, NoneV, FloatV(245), FloatV(550))}

\* Payloads that do not decode to a mapping with the four keys.
BrokenMsgs == {[NoMsg EXCEPT !.enc = "bytes"],
               [NoMsg EXCEPT !.syn = "text"],
               [NoMsg EXCEPT !.top = "array"],
               [Msg(NoneV, Str("x"), NoneV, NoneV) EXCEPT !.keys = {"sensor"}],
               [Msg(NoneV, S1, FloatV(245), FloatV(550))
                    EXCEPT !.keys = AllKeys \ {"ts"}]}

\* Payloads whose temperature cannot be coerced to a number.
UncoercibleMsgs == {Msg(T0, S1, Str("abc"), FloatV(550)),
                    Msg(T0, S1, NoneV, FloatV(550)),
                    Msg(T0, S1, FloatV(245), BigIntV)}

Messages == ValidMsgs \cup MistypedMsgs \cup BrokenMsgs \cup UncoercibleMsgs

\* ------------------------------------------------------------ subscriber

\* The first exception a sequence of steps raises, "" if none does.
RECURSIVE FirstError(_)
FirstError(steps) == IF steps = <<>> THEN ""
                     ELSE IF Head(steps) # "" THEN Head(steps)
                     ELSE FirstError(Tail(steps))

\* msg.payload.decode("utf-8") and json.loads, line 150.
Decode(msg) == IF msg.enc # "utf8" THEN "UnicodeDecodeError"
               ELSE IF msg.syn # "json" THEN "JSONDecodeError"
               ELSE ""

\* payload[key], line 151-154.
Subscript(msg, key) == IF msg.top # "object" THEN "TypeError"
                       ELSE IF key \notin msg.keys THEN "KeyError"
                       ELSE ""

\* Mutant: the handler catches KeyError and ValueError only.
Caught_narrow(exc) == exc \in {"KeyError", "ValueError"}

\* Mutant: the handler catches what decoding and coercion raise, and lets an
\* error of the database through.
Caught_parse(exc) == exc \in {"UnicodeDecodeError", "JSONDecodeError",
                              "TypeError", "KeyError", "ValueError",
                              "OverflowError"}

\* The classes "except Exception" catches, line 157: every exception the
\* body raises; KeyboardInterrupt is not one.
Caught(exc) == exc \in {"UnicodeDecodeError", "JSONDecodeError", "TypeError",
                        "KeyError", "ValueError", "OverflowError",
                        "sqlite3.Error"}

\* line 155: db_insert(ts, sensor, temperature, humidity).
InsertOf(msg, rows, up, ntables) ==
    db_insert(rows, up, ntables, msg.ts, msg.sensor,
              float(msg.temperature).v, float(msg.humidity).v)

\* on_message, line 148-158: the try body up to the first exception, then
\* the handler.  raised is the exception that leaves the callback, "" if
\* none; log is the line logged.
on_message(msg, rows, up, ntables) ==
    LET ins == InsertOf(msg, rows, up, ntables)
        before == FirstError(<<Decode(msg), Subscript(msg, "ts"),
                               Subscript(msg, "sensor"),
                               Subscript(msg, "temperature"),
                               float(msg.temperature).exc,
                               Subscript(msg, "humidity"),
                               float(msg.humidity).exc>>)
        exc == IF before # "" THEN before
               ELSE IF ~ins.ok THEN "sqlite3.Error" ELSE ""
    IN [rows |-> IF exc = "" THEN ins.rows ELSE rows,
        log |-> IF exc = "" THEN "Ingested row"
                ELSE IF Caught(exc) THEN "on_message error" ELSE "",
        raised |-> IF exc = "" \/ Caught(exc) THEN "" ELSE exc]

\* run_subscriber line 145: db_init(); an error there leaves the function.
SubInit(i) ==
    /\ sub_pc[i] = "start"
    /\ LET r == db_init(storeUp, tables)
       IN /\ tables' = r.tables
          /\ sub_pc' = [sub_pc EXCEPT ![i] = IF r.err = "" THEN "made"
                                            ELSE "aborted"]
    /\ UNCHANGED <<storeUp, telemetry, sub_conn, subscribed, inbox, sub_log>>
    /\ UNCHANGED exceptSub

\* line 161: client.connect() reaches the broker ...
SubConnect(i) ==
    /\ sub_pc[i] = "made"
    /\ sub_pc' = [sub_pc EXCEPT ![i] = "connected"]
    /\ sub_conn' = [sub_conn EXCEPT ![i] = TRUE]
    /\ UNCHANGED <<storeVars, subscribed, inbox, sub_log>>
    /\ UNCHANGED exceptSub

\* ... or raises, and the process ends.
SubConnectFails(i) ==
    /\ sub_pc[i] = "made"
    /\ sub_pc' = [sub_pc EXCEPT ![i] = "aborted"]
    /\ UNCHANGED <<storeVars, sub_conn, subscribed, inbox, sub_log>>
    /\ UNCHANGED exceptSub

\* line 162-163: client.subscribe(MQTT_TOPIC, qos=1), whose result is not
\* looked at (no connection: nothing is subscribed), then loop_forever(),
\* which handles the CONNACK by on_connect (line 110).
SubSubscribe(i) ==
    /\ sub_pc[i] = "connected"
    /\ subscribed' = [subscribed EXCEPT ![i] = sub_conn[i]]
    /\ sub_log' = [sub_log EXCEPT ![i] = IF sub_conn[i] THEN "MQTT connected"
                                         ELSE @]
    /\ sub_pc' = [sub_pc EXCEPT ![i] = "loop"]
    /\ UNCHANGED <<storeVars, sub_conn, inbox>>
    /\ UNCHANGED exceptSub

\* The broker delivers a message of the topic to a subscribed client (QoS 1:
\* the same message may be delivered again).
Deliver(i, m) ==
    /\ sub_conn[i] /\ subscribed[i]
    /\ Len(inbox[i]) < MaxInbox
    /\ inbox' = [inbox EXCEPT ![i] = Append(@, m)]
    /\ UNCHANGED <<storeVars, sub_pc, sub_conn, subscribed, sub_log>>
    /\ UNCHANGED exceptSub

\* loop_forever takes the next message and calls on_message (line 148-158);
\* an exception leaving the callback leaves loop_forever and the process.
OnMessage(i) ==
    /\ sub_pc[i] = "loop"
    /\ inbox[i] # <<>>
    /\ Len(telemetry) < MaxLog
    /\ LET r == on_message(Head(inbox[i]), telemetry, storeUp, tables)
       IN /\ telemetry' = r.rows
          /\ sub_log' = [sub_log EXCEPT ![i] = IF r.log # "" THEN r.log ELSE @]
          /\ sub_pc' = [sub_pc EXCEPT ![i] = IF r.raised = "" THEN "loop"
                                            ELSE "crashed"]
    /\ inbox' = [inbox EXCEPT ![i] = Tail(@)]
    /\ UNCHANGED <<storeUp, tables, sub_conn, subscribed>>
    /\ UNCHANGED exceptSub

\* The same call step by step.  loop_forever (line 163) runs the network
\* loop in the thread that called it and calls on_message from there: it
\* takes the next message once the call for the one before has returned.

\* Mutant: each message is handed to on_message as it arrives, whether or
\* not a call is in progress.
SubTake_threaded(i) ==
    /\ sub_pc[i] = "loop"
    /\ inbox[i] # <<>>
    /\ Len(h_taken[i]) < MaxLog
    /\ h_msg' = [h_msg EXCEPT ![i] = Head(inbox[i])]
    /\ h_taken' = [h_taken EXCEPT ![i] = Append(@, Head(inbox[i]))]
    /\ h_pc' = [h_pc EXCEPT ![i] = "decode"]
    /\ inbox' = [inbox EXCEPT ![i] = Tail(@)]
    /\ UNCHANGED <<storeVars, sub_pc, sub_conn, subscribed, sub_log, h_done>>
    /\ UNCHANGED exceptHandler

\* loop_forever takes the next message and enters on_message (line 148).
SubTake(i) ==
    /\ sub_pc[i] = "loop"
    /\ h_pc[i] = "idle"
    /\ inbox[i] # <<>>
    /\ Len(h_taken[i]) < MaxLog
    /\ h_msg' = [h_msg EXCEPT ![i] = Head(inbox[i])]
    /\ h_taken' = [h_taken EXCEPT ![i] = Append(@, Head(inbox[i]))]
    /\ h_pc' = [h_pc EXCEPT ![i] = "decode"]
    /\ inbox' = [inbox EXCEPT ![i] = Tail(@)]
    /\ UNCHANGED <<storeVars, sub_pc, sub_conn, subscribed, sub_log, h_done>>
    /\ UNCHANGED exceptHandler

\* The call of subscriber i ends with exception exc ("" is none) after
\* committing row id (0 is none): line 156, or the handler of line 157-158,
\* or the exception leaves the callback and loop_forever.
Return(i, exc, id) ==
    /\ h_pc' = [h_pc EXCEPT ![i] = "idle"]
    /\ h_msg' = [h_msg EXCEPT ![i] = NoMsg]
    /\ h_done' = [h_done EXCEPT ![i] = Append(@, id)]
    /\ sub_log' = [sub_log EXCEPT ![i] = IF exc = "" THEN "Ingested row"
                                         ELSE IF Caught(exc)
                                         THEN "on_message error" ELSE @]
    /\ sub_pc' = [sub_pc EXCEPT ![i] = IF exc = "" \/ Caught(exc) THEN "loop"
                                       ELSE "crashed"]

\* line 150: json.loads(msg.payload.decode("utf-8")).
SubDecode(i) ==
    /\ h_pc[i] = "decode"
    /\ IF Decode(h_msg[i]) # ""
       THEN Return(i, Decode(h_msg[i]), 0)
       ELSE /\ h_pc' = [h_pc EXCEPT ![i] = "validate"]
            /\ UNCHANGED <<sub_pc, sub_log, h_msg, h_done>>
    /\ UNCHANGED <<storeVars, sub_conn, subscribed, inbox, h_taken>>
    /\ UNCHANGED exceptHandler

\* line 151-154: the four subscripts and the two float() calls.
SubValidate(i) ==
    /\ h_pc[i] = "validate"
    /\ LET exc == FirstError(<<Subscript(h_msg[i], "ts"),
                               Subscript(h_msg[i], "sensor"),
                               Subscript(h_msg[i], "temperature"),
                               float(h_msg[i].temperature).exc,
                               Subscript(h_msg[i], "humidity"),
                               float(h_msg[i].humidity).exc>>)
       IN IF exc # ""
          THEN Return(i, exc, 0)
          ELSE /\ h_pc' = [h_pc EXCEPT ![i] = "append"]
               /\ UNCHANGED <<sub_pc, sub_log, h_msg, h_done>>
    /\ UNCHANGED <<storeVars, sub_conn, subscribed, inbox, h_taken>>
    /\ UNCHANGED exceptHandler

\* line 155-156: db_insert, one transaction, then the log line.
SubAppend(i) ==
    /\ h_pc[i] = "append"
    /\ Len(telemetry) < MaxLog
    /\ LET r == InsertOf(h_msg[i], telemetry, storeUp, tables)
       IN /\ telemetry' = r.rows
          /\ IF r.ok THEN Return(i, "", r.rows[Len(r.rows)].id)
             ELSE Return(i, "sqlite3.Error", 0)
    /\ UNCHANGED <<storeUp, tables, sub_conn, subscribed, inbox, h_taken>>
    /\ UNCHANGED exceptHandler

\* The connection drops (the network fails, or the process has ended and
\* its socket is closed for it).  The client was made with
\* clean_session=True (line 107): the broker forgets the session, its
\* subscription and what it had queued for it.
ConnectionLost(i) ==
    /\ sub_pc[i] \in {"connected", "loop", "interrupted"}
    /\ sub_conn[i]
    /\ sub_conn' = [sub_conn EXCEPT ![i] = FALSE]
    /\ subscribed' = [subscribed EXCEPT ![i] = FALSE]
    /\ inbox' = [inbox EXCEPT ![i] = <<>>]
    /\ UNCHANGED <<storeVars, sub_pc, sub_log>>
    /\ UNCHANGED exceptSub

\* loop_forever reconnects; the CONNACK is handled by on_connect, which logs
\* and does nothing else (line 110).
Reconnect(i) ==
    /\ sub_pc[i] = "loop"
    /\ ~sub_conn[i]
    /\ sub_conn' = [sub_conn EXCEPT ![i] = TRUE]
    /\ sub_log' = [sub_log EXCEPT ![i] = "MQTT connected"]
    /\ UNCHANGED <<storeVars, sub_pc, subscribed, inbox>>
    /\ UNCHANGED exceptSub

\* KeyboardInterrupt in line 161-163: run_subscriber has no try statement
\* around connect, subscribe and loop_forever, and "except Exception" of
\* on_message (line 157) does not catch it: it leaves the function, and no
\* client.disconnect() is called.  An INSERT it interrupts is rolled back
\* by conn.close() (line 84) unless its commit was done.
SubInterrupt(i) ==
    /\ sub_pc[i] \in {"connected", "loop"}
    /\ sub_pc' = [sub_pc EXCEPT ![i] = "interrupted"]
    /\ UNCHANGED <<storeVars, sub_conn, subscribed, inbox, sub_log>>
    /\ UNCHANGED exceptSub

\* ------------------------------------------------------------ OPC UA server

\* The values an OPC UA client writes to the writable nodes (line 180-182).
ClientFloats == {FloatV(999)}
ClientStrings == {Str("client")}

\* line 184: db_init(); an error there leaves the function before
\* server.start().
MirrorInit ==
    /\ m_pc = "start"
    /\ LET r == db_init(storeUp, tables)
       IN /\ tables' = r.tables
          /\ m_pc' = IF r.err = "" THEN "inited" ELSE "aborted"
    /\ UNCHANGED <<storeUp, telemetry, serving, m_rows, v_temp, v_hum,
                   v_sensor, m_seen, ext_written, m_over>>
    /\ UNCHANGED exceptMirror

\* line 185: server.start() binds the endpoint ...
MirrorStart ==
    /\ m_pc = "inited"
    /\ serving' = TRUE
    /\ m_pc' = "poll"
    /\ UNCHANGED <<storeVars, m_rows, v_temp, v_hum, v_sensor, m_seen,
                   ext_written, m_over>>
    /\ UNCHANGED exceptMirror

\* ... or raises, and the process ends.
MirrorStartFails ==
    /\ m_pc = "inited"
    /\ m_pc' = "aborted"
    /\ UNCHANGED <<storeVars, serving, m_rows, v_temp, v_hum, v_sensor,
                   m_seen, ext_written, m_over>>
    /\ UNCHANGED exceptMirror

\* Mutant: no "if rows": rows[0] of an empty result raises IndexError.
MirrorPoll_index ==
    /\ m_pc = "poll"
    /\ LET r == db_latest(telemetry, storeUp, tables, 1)
       IN IF ~r.ok \/ r.rows = <<>>
          THEN /\ m_pc' = "crashed"
               /\ serving' = FALSE
               /\ UNCHANGED <<m_rows, m_seen, ext_written>>
          ELSE /\ m_rows' = r.rows
               /\ m_pc' = "set_temp"
               /\ m_seen' = Len(telemetry)
               /\ ext_written' = FALSE
               /\ UNCHANGED serving
    /\ UNCHANGED <<storeVars, v_temp, v_hum, v_sensor, m_over>>
    /\ UNCHANGED exceptMirror

\* line 189-190: rows = db_latest(1).  An error of db_latest is no
\* KeyboardInterrupt: it passes the except clause of line 196, the finally
\* clause stops the server (line 199) and the function is left.
MirrorPoll ==
    /\ m_pc = "poll"
    /\ LET r == db_latest(telemetry, storeUp, tables, 1)
       IN IF ~r.ok
          THEN /\ m_pc' = "crashed"
               /\ serving' = FALSE
               /\ UNCHANGED <<m_rows, m_seen, ext_written>>
          ELSE /\ m_rows' = r.rows
               /\ m_pc' = IF r.rows # <<>> THEN "set_temp" ELSE "sleep"
               /\ m_seen' = Len(telemetry)
               /\ ext_written' = FALSE
               /\ UNCHANGED serving
    /\ UNCHANGED <<storeVars, v_temp, v_hum, v_sensor, m_over>>
    /\ UNCHANGED exceptMirror

\* line 191-192: v_temp.set_value(float(temperature)).
MirrorSetTemp ==
    /\ m_pc = "set_temp"
    /\ v_temp' = float(m_rows[1][3]).v
    /\ m_pc' = "set_hum"
    /\ m_over' = (m_over \/ v_temp \in ClientFloats)
    /\ UNCHANGED <<storeVars, serving, m_rows, v_hum, v_sensor, m_seen,
                   ext_written>>
    /\ UNCHANGED exceptMirror

\* Mutant: the humidity node is given the temperature.
MirrorSetHum_temp ==
    /\ m_pc = "set_hum"
    /\ v_hum' = float(m_rows[1][3]).v
    /\ m_pc' = "set_sensor"
    /\ m_over' = (m_over \/ v_hum \in ClientFloats)
    /\ UNCHANGED <<storeVars, serving, m_rows, v_temp, v_sensor, m_seen,
                   ext_written>>
    /\ UNCHANGED exceptMirror

\* line 193: v_hum.set_value(float(humidity)).
MirrorSetHum ==
    /\ m_pc = "set_hum"
    /\ v_hum' = float(m_rows[1][4]).v
    /\ m_pc' = "set_sensor"
    /\ m_over' = (m_over \/ v_hum \in ClientFloats)
    /\ UNCHANGED <<storeVars, serving, m_rows, v_temp, v_sensor, m_seen,
                   ext_written>>
    /\ UNCHANGED exceptMirror

\* Mutant: the server leaves a node alone that holds a client's value.
MirrorSetSensor_keep ==
    /\ m_pc = "set_sensor"
    /\ v_sensor' = IF v_sensor \in ClientStrings THEN v_sensor
                   ELSE str(m_rows[1][2])
    /\ m_pc' = "sleep"
    /\ m_over' = m_over
    /\ UNCHANGED <<storeVars, serving, m_rows, v_temp, v_hum, m_seen,
                   ext_written>>
    /\ UNCHANGED exceptMirror

\* line 194: v_sensor.set_value(str(sensor)).
MirrorSetSensor ==
    /\ m_pc = "set_sensor"
    /\ v_sensor' = str(m_rows[1][2])
    /\ m_pc' = "sleep"
    /\ m_over' = (m_over \/ v_sensor \in ClientStrings)
    /\ UNCHANGED <<storeVars, serving, m_rows, v_temp, v_hum, m_seen,
                   ext_written>>
    /\ UNCHANGED exceptMirror

\* A set_value call of line 192-194 raises: as for db_latest, the finally
\* clause stops the server and the function is left.
MirrorWriteFails ==
    /\ m_pc \in {"set_temp", "set_hum", "set_sensor"}
    /\ m_pc' = "crashed"
    /\ serving' = FALSE
    /\ UNCHANGED <<storeVars, m_rows, v_temp, v_hum, v_sensor, m_seen,
                   ext_written, m_over>>
    /\ UNCHANGED exceptMirror

\* line 195: time.sleep(1.0) is over, the loop goes round.
MirrorWake ==
    /\ m_pc = "sleep"
    /\ m_pc' = "poll"
    /\ UNCHANGED <<storeVars, serving, m_rows, v_temp, v_hum, v_sensor,
                   m_seen, ext_written, m_over>>
    /\ UNCHANGED exceptMirror

\* line 196-199: KeyboardInterrupt anywhere in the loop: logged, then the
\* finally clause stops the server.
MirrorInterrupt ==
    /\ m_pc \in {"poll", "set_temp", "set_hum", "set_sensor", "sleep"}
    /\ m_pc' = "stopped"
    /\ serving' = FALSE
    /\ UNCHANGED <<storeVars, m_rows, v_temp, v_hum, v_sensor, m_seen,
                   ext_written, m_over>>
    /\ UNCHANGED exceptMirror

ExternalWriteTemp(x) ==
    /\ serving
    /\ v_temp' = x
    /\ ext_written' = TRUE
    /\ UNCHANGED <<storeVars, m_pc, serving, m_rows, v_hum, v_sensor, m_seen, m_over>>
    /\ UNCHANGED exceptMirror

ExternalWriteHum(x) ==
    /\ serving
    /\ v_hum' = x
    /\ ext_written' = TRUE
    /\ UNCHANGED <<storeVars, m_pc, serving, m_rows, v_temp, v_sensor, m_seen, m_over>>
    /\ UNCHANGED exceptMirror

ExternalWriteSensor(x) ==
    /\ serving
    /\ v_sensor' = x
    /\ ext_written' = TRUE
    /\ UNCHANGED <<storeVars, m_pc, serving, m_rows, v_temp, v_hum, m_seen, m_over>>
    /\ UNCHANGED exceptMirror

\* ------------------------------------------------------------ publisher

\* line 116: db_init(); an error there leaves the function.
PubInit ==
    /\ pub_pc = "start"
    /\ LET r == db_init(storeUp, tables)
       IN /\ tables' = r.tables
          /\ pub_pc' = IF r.err = "" THEN "made" ELSE "aborted"
    /\ UNCHANGED <<storeUp, telemetry, pub_conn, pub_unacked, pub_queued,
                   pub_log>>
    /\ UNCHANGED <<inbox, exceptPub>>

\* line 118-120: client.connect() reaches the broker, loop_start() starts the
\* network thread ...
PubConnect ==
    /\ pub_pc = "made"
    /\ pub_conn' = TRUE
    /\ pub_log' = "Publisher started"
    /\ pub_pc' = "loop"
    /\ UNCHANGED <<storeVars, pub_unacked, pub_queued>>
    /\ UNCHANGED <<inbox, exceptPub>>

\* ... or connect() raises, and the process ends.
PubConnectFails ==
    /\ pub_pc = "made"
    /\ pub_pc' = "aborted"
    /\ UNCHANGED <<storeVars, pub_conn, pub_unacked, pub_queued, pub_log>>
    /\ UNCHANGED <<inbox, exceptPub>>

\* The broker hands a published message to every subscribed client.
FanOut(boxes, m) ==
    [i \in Ingestors |-> IF sub_conn[i] /\ subscribed[i]
                         THEN Append(boxes[i], m) ELSE boxes[i]]

BrokerHasRoom ==
    \A i \in Ingestors : sub_conn[i] /\ subscribed[i] => Len(inbox[i]) < MaxInbox

\* Mutant: a publish that reports failure ends the loop.
PubPublish_fatal(m) ==
    /\ pub_pc = "loop"
    /\ pub_unacked + Len(pub_queued) < MaxInflight
    /\ IF pub_conn
       THEN /\ BrokerHasRoom
            /\ inbox' = FanOut(inbox, m)
            /\ pub_unacked' = pub_unacked + 1
            /\ pub_log' = "Published"
            /\ pub_pc' = "sleep"
            /\ UNCHANGED <<pub_queued, pub_conn>>
       ELSE /\ pub_queued' = Append(pub_queued, m)
            /\ pub_log' = "Publish failed"
            /\ pub_pc' = "stopped"
            /\ UNCHANGED <<inbox, pub_unacked, pub_conn>>
    /\ UNCHANGED storeVars
    /\ UNCHANGED exceptPub

\* line 123-133: one reading is published with qos=1.  Connected, the message
\* goes out and publish() reports MQTT_ERR_SUCCESS; not connected, publish()
\* reports MQTT_ERR_NO_CONN and the client keeps the message.
PubPublish(m) ==
    /\ pub_pc = "loop"
    /\ pub_unacked + Len(pub_queued) < MaxInflight
    /\ IF pub_conn
       THEN /\ BrokerHasRoom
            /\ inbox' = FanOut(inbox, m)
            /\ pub_unacked' = pub_unacked + 1
            /\ pub_log' = "Published"
            /\ UNCHANGED pub_queued
       ELSE /\ pub_queued' = Append(pub_queued, m)
            /\ pub_log' = "Publish failed"
            /\ UNCHANGED <<inbox, pub_unacked>>
    /\ pub_pc' = "sleep"
    /\ UNCHANGED <<storeVars, pub_conn>>
    /\ UNCHANGED exceptPub

\* line 134: time.sleep(PUBLISH_INTERVAL) is over, the loop goes round.
PubWake ==
    /\ pub_pc = "sleep"
    /\ pub_pc' = "loop"
    /\ UNCHANGED <<storeVars, inbox, pub_conn, pub_unacked, pub_queued, pub_log>>
    /\ UNCHANGED exceptPub

\* The network thread handles a PUBACK; on_publish logs at debug level
\* (line 111), which the logger drops.
PubAck ==
    /\ pub_pc \in {"loop", "sleep"}
    /\ pub_conn
    /\ pub_unacked > 0
    /\ pub_unacked' = pub_unacked - 1
    /\ UNCHANGED <<storeVars, inbox, pub_pc, pub_conn, pub_queued, pub_log>>
    /\ UNCHANGED exceptPub

PubConnectionLost ==
    /\ pub_pc \in {"loop", "sleep"}
    /\ pub_conn
    /\ pub_conn' = FALSE
    /\ UNCHANGED <<storeVars, inbox, pub_pc, pub_unacked, pub_queued, pub_log>>
    /\ UNCHANGED exceptPub

\* The network thread reconnects; on_connect logs (line 110).
PubReconnect ==
    /\ pub_pc \in {"loop", "sleep"}
    /\ ~pub_conn
    /\ pub_conn' = TRUE
    /\ pub_log' = "MQTT connected"
    /\ UNCHANGED <<storeVars, inbox, pub_pc, pub_unacked, pub_queued>>
    /\ UNCHANGED exceptPub

\* Connected again, the network thread sends a message the client had kept.
PubFlush ==
    /\ pub_pc \in {"loop", "sleep"}
    /\ pub_conn
    /\ pub_queued # <<>>
    /\ BrokerHasRoom
    /\ inbox' = FanOut(inbox, Head(pub_queued))
    /\ pub_queued' = Tail(pub_queued)
    /\ pub_unacked' = pub_unacked + 1
    /\ UNCHANGED <<storeVars, pub_pc, pub_conn, pub_log>>
    /\ UNCHANGED exceptPub

\* line 135-139: KeyboardInterrupt: logged, then loop_stop() and
\* disconnect(), whatever is still unacknowledged or kept.
PubInterrupt ==
    /\ pub_pc \in {"loop", "sleep"}
    /\ pub_log' = "Publisher stopping"
    /\ pub_conn' = FALSE
    /\ pub_pc' = "stopped"
    /\ UNCHANGED <<storeVars, inbox, pub_unacked, pub_queued>>
    /\ UNCHANGED exceptPub

\* ------------------------------------------------------------ dashboard

\* The slider of line 210, 50 to 1000 in steps of 50: its smallest value,
\* its default and its largest.
SliderValues == {50, 200, 1000}

RECURSIVE Reversed(_)
Reversed(q) == IF q = <<>> THEN <<>> ELSE Append(Reversed(Tail(q)), Head(q))

\* Mutant: the column is not reversed.
Column_newestfirst(data, c) == [j \in DOMAIN data |-> data[j][c]]

\* [r[c] for r in data][::-1], line 214-216.
Column(data, c) == Reversed([j \in DOMAIN data |-> data[j][c]])

\* line 209: db_init().
DashInit ==
    /\ d_pc = "start"
    /\ LET r == db_init(storeUp, tables)
       IN /\ tables' = r.tables
          /\ d_pc' = IF r.err = "" THEN "inited" ELSE "aborted"
    /\ UNCHANGED <<storeUp, telemetry, d_data, d_ts, d_temps, d_hums>>
    /\ UNCHANGED exceptDash

\* line 210-216: the rows are read and turned into the three chart lists; an
\* error of db_latest ends the script run.
DashRead(n) ==
    /\ d_pc = "inited"
    /\ LET r == db_latest(telemetry, storeUp, tables, n)
       IN IF r.ok
          THEN /\ d_data' = r.rows
               /\ d_ts' = Column(r.rows, 1)
               /\ d_temps' = Column(r.rows, 3)
               /\ d_hums' = Column(r.rows, 4)
               /\ d_pc' = "shown"
          ELSE /\ d_pc' = "aborted"
               /\ UNCHANGED <<d_data, d_ts, d_temps, d_hums>>
    /\ UNCHANGED storeVars
    /\ UNCHANGED exceptDash

\* Streamlit runs the script again (a widget changed, the page was loaded).
DashRerun ==
    /\ d_pc \in {"shown", "aborted"}
    /\ d_pc' = "start"
    /\ UNCHANGED <<storeVars, d_data, d_ts, d_temps, d_hums>>
    /\ UNCHANGED exceptDash

\* ------------------------------------------------------------ direct reads

\* Any caller's db_latest(n), line 86-94, on a database that is there.
Query(n) ==
    /\ db_latest(telemetry, storeUp, tables, n).ok
    /\ q_n' = n
    /\ q_rows' = db_latest(telemetry, storeUp, tables, n).rows
    /\ UNCHANGED storeVars
    /\ UNCHANGED exceptQuery

\* The database file becomes unreachable, and reachable again.
StoreFails ==
    /\ storeUp
    /\ storeUp' = FALSE
    /\ UNCHANGED <<tables, telemetry, subVars, mirrorVars, pubVars, dashVars,
                   queryVars, handVars>>

StoreRecovers ==
    /\ ~storeUp
    /\ storeUp' = TRUE
    /\ UNCHANGED <<tables, telemetry, subVars, mirrorVars, pubVars, dashVars,
                   queryVars, handVars>>

Init ==
    /\ storeUp = TRUE
    /\ tables = 0
    /\ telemetry = <<>>
    /\ sub_pc = [i \in Ingestors |-> "start"]
    /\ sub_conn = [i \in Ingestors |-> FALSE]
    /\ subscribed = [i \in Ingestors |-> FALSE]
    /\ inbox = [i \in Ingestors |-> <<>>]
    /\ sub_log = [i \in Ingestors |-> ""]
    /\ h_pc = [i \in Ingestors |-> "idle"]
    /\ h_msg = [i \in Ingestors |-> NoMsg]
    /\ h_taken = [i \in Ingestors |-> <<>>]
    /\ h_done = [i \in Ingestors |-> <<>>]
    /\ m_pc = "start"
    /\ serving = FALSE
    /\ m_rows = <<>>
    /\ v_temp = FloatV(0)
    /\ v_hum = FloatV(0)
    /\ v_sensor = Str("sensor-001")
    /\ m_seen = 0
    /\ ext_written = FALSE
    /\ m_over = FALSE
    /\ pub_pc = "start"
    /\ pub_conn = FALSE
    /\ pub_unacked = 0
    /\ pub_queued = <<>>
    /\ pub_log = ""
    /\ d_pc = "start"
    /\ d_data = <<>>
    /\ d_ts = <<>>
    /\ d_temps = <<>>
    /\ d_hums = <<>>
    /\ q_n = 0
    /\ q_rows = <<>>

\* ------------------------------------------------------- specifications
\* Two subscribers writing to one database, with store faults: the first is
\* fed every kind of payload and loses and regains its connection, the
\* second is fed a reading of the publisher.
IngestMsgs == {Reading0, ReadingInt} \cup BrokenMsgs \cup UncoercibleMsgs

NextIngest ==
    \/ \E i \in Ingestors : SubInit(i)
    \/ \E i \in Ingestors : SubConnect(i)
    \/ \E i \in Ingestors : SubConnectFails(i)
    \/ \E i \in Ingestors : SubSubscribe(i)
    \/ \E m \in IngestMsgs : Deliver("sub-a", m)
    \/ Deliver("sub-b", Reading0)
    \/ \E i \in Ingestors : OnMessage(i)
    \/ ConnectionLost("sub-a")
    \/ Reconnect("sub-a")
    \/ StoreFails
    \/ StoreRecovers

SpecIngest == Init /\ [][NextIngest]_vars

\* One subscriber fed by the publisher, the OPC UA server and its clients,
\* with store faults.
NextMirror ==
    \/ SubInit("sub-a")
    \/ SubConnect("sub-a")
    \/ SubSubscribe("sub-a")
    \/ \E m \in PublisherMsgs : Deliver("sub-a", m)
    \/ OnMessage("sub-a")
    \/ MirrorInit
    \/ MirrorStart
    \/ MirrorStartFails
    \/ MirrorPoll
    \/ MirrorSetTemp
    \/ MirrorSetHum
    \/ MirrorSetSensor
    \/ MirrorWriteFails
    \/ MirrorWake
    \/ MirrorInterrupt
    \/ \E x \in ClientFloats : ExternalWriteTemp(x)
    \/ \E x \in ClientFloats : ExternalWriteHum(x)
    \/ \E x \in ClientStrings : ExternalWriteSensor(x)
    \/ StoreFails
    \/ StoreRecovers

SpecMirror == Init /\ [][NextMirror]_vars

\* The four components on one database: each runs db_init at startup
\* (of the publisher only that touches the database), one subscriber
\* appends, the OPC UA server polls and the dashboard reads.
NextStore ==
    \/ PubInit
    \/ SubInit("sub-a")
    \/ SubConnect("sub-a")
    \/ SubSubscribe("sub-a")
    \/ \E m \in PublisherMsgs : Deliver("sub-a", m)
    \/ OnMessage("sub-a")
    \/ MirrorInit
    \/ MirrorStart
    \/ MirrorPoll
    \/ MirrorSetTemp
    \/ MirrorSetHum
    \/ MirrorSetSensor
    \/ MirrorWake
    \/ DashInit
    \/ \E n \in SliderValues : DashRead(n)
    \/ DashRerun
    \/ StoreFails
    \/ StoreRecovers

SpecStore == Init /\ [][NextStore]_vars

\* Direct reads of a log that a subscriber fills.
NextLatest ==
    \/ SubInit("sub-a")
    \/ SubConnect("sub-a")
    \/ SubSubscribe("sub-a")
    \/ \E m \in ValidMsgs : Deliver("sub-a", m)
    \/ OnMessage("sub-a")
    \/ \E n \in 1..MaxN : Query(n)

SpecLatest == Init /\ [][NextLatest]_vars

\* The publisher and a subscriber over the broker.
NextPublish ==
    \/ PubInit
    \/ PubConnect
    \/ PubConnectFails
    \/ \E m \in PublisherMsgs : PubPublish(m)
    \/ PubWake
    \/ PubAck
    \/ PubConnectionLost
    \/ PubReconnect
    \/ PubFlush
    \/ PubInterrupt
    \/ SubInit("sub-a")
    \/ SubConnect("sub-a")
    \/ SubSubscribe("sub-a")
    \/ OnMessage("sub-a")

SpecPublish == Init /\ [][NextPublish]_vars

\* One subscriber fed mappings whose keys are absent or of the wrong type,
\* next to a reading of the publisher, with store faults.
WireMsgs == {Reading0} \cup MistypedMsgs \cup BrokenMsgs

NextWire ==
    \/ SubInit("sub-a")
    \/ SubConnect("sub-a")
    \/ SubSubscribe("sub-a")
    \/ \E m \in WireMsgs : Deliver("sub-a", m)
    \/ OnMessage("sub-a")
    \/ StoreFails
    \/ StoreRecovers

SpecWire == Init /\ [][NextWire]_vars

\* A subscriber and the OPC UA server, each of which may be interrupted.
NextShutdown ==
    \/ SubInit("sub-a")
    \/ SubConnect("sub-a")
    \/ SubSubscribe("sub-a")
    \/ \E m \in PublisherMsgs : Deliver("sub-a", m)
    \/ OnMessage("sub-a")
    \/ ConnectionLost("sub-a")
    \/ SubInterrupt("sub-a")
    \/ MirrorInit
    \/ MirrorStart
    \/ MirrorPoll
    \/ MirrorSetTemp
    \/ MirrorSetHum
    \/ MirrorSetSensor
    \/ MirrorWake
    \/ MirrorInterrupt

SpecShutdown == Init /\ [][NextShutdown]_vars

\* The dashboard reading a log that a subscriber fills, with store faults.
\* Next to the slider's values the window takes small sizes, which stand for
\* a window smaller than the log: a log of more than 50 rows is beyond
\* MaxLog.
WindowSizes == SliderValues \cup 1..MaxN

NextWindow ==
    \/ SubInit("sub-a")
    \/ SubConnect("sub-a")
    \/ SubSubscribe("sub-a")
    \/ \E m \in PublisherMsgs : Deliver("sub-a", m)
    \/ OnMessage("sub-a")
    \/ DashInit
    \/ \E n \in WindowSizes : DashRead(n)
    \/ DashRerun
    \/ StoreFails
    \/ StoreRecovers

SpecWindow == Init /\ [][NextWindow]_vars

\* The publisher, a subscriber and the OPC UA server starting up on a
\* database that may be unreachable, and running their loops.
NextStartup ==
    \/ PubInit
    \/ PubConnect
    \/ \E m \in PublisherMsgs : PubPublish(m)
    \/ PubWake
    \/ PubAck
    \/ SubInit("sub-a")
    \/ SubConnect("sub-a")
    \/ SubSubscribe("sub-a")
    \/ OnMessage("sub-a")
    \/ MirrorInit
    \/ MirrorStart
    \/ MirrorPoll
    \/ MirrorSetTemp
    \/ MirrorSetHum
    \/ MirrorSetSensor
    \/ MirrorWake
    \/ StoreFails
    \/ StoreRecovers

SpecStartup == Init /\ [][NextStartup]_vars

\* Two subscribers whose on_message calls run step by step, interleaved
\* with each other: the first is fed a reading, a text that is no JSON and
\* a reading that cannot be coerced, the second a reading.
HandlerMsgs == {Reading0, [NoMsg EXCEPT !.syn = "text"],
                Msg(T0, S1, Str("abc"), FloatV(550))}

NextHandler ==
    \/ \E i \in Ingestors : SubInit(i)
    \/ \E i \in Ingestors : SubConnect(i)
    \/ \E i \in Ingestors : SubSubscribe(i)
    \/ \E m \in HandlerMsgs : Deliver("sub-a", m)
    \/ Deliver("sub-b", Reading2)
    \/ \E i \in Ingestors : SubTake(i)
    \/ \E i \in Ingestors : SubDecode(i)
    \/ \E i \in Ingestors : SubValidate(i)
    \/ \E i \in Ingestors : SubAppend(i)

SpecHandler == Init /\ [][NextHandler]_vars

\* The OPC UA server mirroring a log that a subscriber fills with readings
\* of different temperature and humidity; no client writes a node.
SnapshotMsgs == {Reading0, ReadingInt}

NextSnapshot ==
    \/ SubInit("sub-a")
    \/ SubConnect("sub-a")
    \/ SubSubscribe("sub-a")
    \/ \E m \in SnapshotMsgs : Deliver("sub-a", m)
    \/ OnMessage("sub-a")
    \/ MirrorInit
    \/ MirrorStart
    \/ MirrorPoll
    \/ MirrorSetTemp
    \/ MirrorSetHum
    \/ MirrorSetSensor
    \/ MirrorWake

SpecSnapshot == Init /\ [][NextSnapshot]_vars

\* The whole system.
Next == NextIngest \/ NextMirror \/ NextStore \/ NextLatest \/ NextPublish
        \/ NextWire \/ NextShutdown \/ NextWindow \/ NextStartup
        \/ NextHandler \/ NextSnapshot

Spec == Init /\ [][Next]_vars

\* ------------------------------------------------------------ properties
\* A valid wire-format message: a JSON mapping with a text ts, a text sensor
\* and JSON numbers for temperature and humidity.
IsValidWire(m) ==
    /\ m.enc = "utf8" /\ m.syn = "json" /\ m.top = "object"
    /\ m.keys = AllKeys
    /\ m.ts.k = "str" /\ m.sensor.k = "str"
    /\ m.temperature.k \in {"int", "float"}
    /\ m.humidity.k \in {"int", "float"}

\* A JSON number as a floating-point value.
AsFloat(v) == IF v.k = "int" THEN FloatV(10 * v.n) ELSE v

\* The record a valid message stands for.
WireRecord(m) == <<m.ts, m.sensor, AsFloat(m.temperature), AsFloat(m.humidity)>>

\* A value no number can be made of.
Uncoercible(v) == \/ v.k \in {"none", "list", "bigint"}
                  \/ v.k = "str" /\ v.s \notin NumericStrings

\* A malformed input: undecodable bytes, invalid JSON, no mapping, a missing
\* key, or a reading that cannot be coerced to a number.
IsMalformed(m) ==
    \/ m.enc # "utf8"
    \/ m.syn # "json"
    \/ m.top # "object"
    \/ m.keys # AllKeys
    \/ Uncoercible(m.temperature)
    \/ Uncoercible(m.humidity)

\* The payload fields of a stored row, as a reader gets them.
Payload(row) == <<FromSql(row.ts), FromSql(row.sensor),
                  FromSql(row.temperature), FromSql(row.humidity)>>

IsPrefix(p, q) == /\ Len(p) <= Len(q)
                  /\ \A j \in 1..Len(p) : q[j] = p[j]

Min(a, b) == IF a < b THEN a ELSE b

\* The min(n, k) most recently committed rows, newest first.
Newest(rows, n) ==
    [j \in 1..Min(n, Len(rows)) |-> Payload(rows[Len(rows) - j + 1])]

\* C1: when on_message has handled a valid wire-format message with the
\* store available, latest(1) right after it is exactly one record, whose
\* ts, sensor, temperature and humidity are the message's (the readings as
\* floats).
C1_IngestedIsLatest ==
    [][\A i \in Ingestors :
          (OnMessage(i) /\ storeUp /\ IsValidWire(Head(inbox[i])))
          => db_latest(telemetry', storeUp', tables', 1).rows
                = <<WireRecord(Head(inbox[i]))>>]_vars

\* C1 witness: a message with an integer temperature was ingested and is the
\* newest row, its temperature stored as the float 24.0.
C1_Witness ==
    /\ telemetry # <<>>
    /\ \E i \in Ingestors : sub_log[i] = "Ingested row"
    /\ Payload(telemetry[Len(telemetry)]) = <<T2, S1, FloatV(240), FloatV(613)>>

\* C2: on a malformed input on_message raises nothing (loop_forever goes
\* on), logs the error and leaves the log as it was.
C2_MalformedDiscarded ==
    [][\A i \in Ingestors :
          (OnMessage(i) /\ IsMalformed(Head(inbox[i])))
          => /\ sub_pc'[i] = "loop"
             /\ telemetry' = telemetry
             /\ sub_log'[i] = "on_message error"]_vars

\* C2 witness: a subscriber has discarded a message, is still in its loop
\* and has the next message waiting.
C2_Witness ==
    \E i \in Ingestors : /\ sub_log[i] = "on_message error"
                         /\ sub_pc[i] = "loop"
                         /\ inbox[i] # <<>>
                         /\ storeUp

StrictlyIncreasingIds(rows) ==
    \A j, k \in DOMAIN rows : j < k => rows[j].id < rows[k].id

\* C3 as amended: the ids the log assigns are strictly increasing in commit
\* order (so unique), whichever writer appends, and latest(N) on N rows
\* returns them in the reverse of the append order.
C3_MonotonicIds ==
    /\ StrictlyIncreasingIds(telemetry)
    /\ db_latest(telemetry, TRUE, 1, Len(telemetry)).rows
          = Newest(telemetry, Len(telemetry))

\* C3 witness: both subscribers have appended and the log holds three rows.
C3_Witness ==
    /\ Len(telemetry) = 3
    /\ \A i \in Ingestors : sub_log[i] = "Ingested row"

\* C3 as stated: moreover each successful append returns the sequence_id it
\* assigned.
C3_AppendReturnsId ==
    [][/\ StrictlyIncreasingIds(telemetry')
       /\ db_latest(telemetry', TRUE, 1, Len(telemetry')).rows
             = Newest(telemetry', Len(telemetry'))
       /\ \A i \in Ingestors :
             (OnMessage(i) /\ Len(telemetry') = Len(telemetry) + 1)
             => InsertOf(Head(inbox[i]), telemetry, storeUp, tables).ret
                   = IntV(telemetry'[Len(telemetry')].id)]_vars

\* C4: for n >= 1 on a log of k rows, latest(n) returns exactly the
\* min(n, k) most recently appended rows, newest first: none of an empty
\* log, all k when k < n.
C4_LatestReturnsMin ==
    [][\A n \in 1..MaxN :
          Query(n) => /\ q_rows' = Newest(telemetry, n)
                      /\ Len(q_rows') = Min(n, Len(telemetry))]_vars

\* C4 witness: latest(2) has returned two rows of a log that holds three.
C4_Witness ==
    /\ q_n = 2
    /\ Len(telemetry) = 3
    /\ q_rows = Newest(telemetry, 2)
    /\ q_rows[1] # q_rows[2]

\* C5: a db_init call of any component on an available store raises nothing,
\* leaves exactly one schema and leaves every row as it was; at no time are
\* there two schemas.
C5_InitIdempotent ==
    [][/\ tables' <= 1
       /\ (PubInit /\ storeUp) => pub_pc' = "made"
       /\ \A i \in Ingestors : (SubInit(i) /\ storeUp) => sub_pc'[i] = "made"
       /\ (MirrorInit /\ storeUp) => m_pc' = "inited"
       /\ (DashInit /\ storeUp) => d_pc' = "inited"
       /\ ((PubInit \/ MirrorInit \/ DashInit \/ \E i \in Ingestors : SubInit(i))
           /\ storeUp) => (tables' = 1 /\ telemetry' = telemetry)]_vars

\* C5 witness: all four components have run db_init, the dashboard again
\* after it had already shown rows of the log.
C5_Witness ==
    /\ tables = 1
    /\ telemetry # <<>>
    /\ pub_pc = "made"
    /\ sub_pc["sub-a"] = "loop"
    /\ m_pc \in {"poll", "sleep"}
    /\ d_pc = "inited"
    /\ d_data # <<>>

\* C6: the log is append-only: every step leaves the rows it held, ids and
\* field values, as a prefix of the rows it holds afterwards.
C6_AppendOnly == [][IsPrefix(telemetry, telemetry')]_vars

\* C6 witness: the log holds three rows while the OPC UA server has polled
\* and the dashboard has read it.
C6_Witness ==
    /\ Len(telemetry) = 3
    /\ m_pc = "sleep" /\ m_seen > 0
    /\ d_pc = "shown" /\ d_data # <<>>

\* C7: each delivery of a valid message handled with the store available
\* adds exactly one row, with the message's payload and an id no earlier row
\* has; no delivery adds more than one row.
C7_OneRowPerDelivery ==
    [][\A i \in Ingestors :
          OnMessage(i)
          => /\ Len(telemetry') <= Len(telemetry) + 1
             /\ (storeUp /\ IsValidWire(Head(inbox[i])))
                => /\ Len(telemetry') = Len(telemetry) + 1
                   /\ IsPrefix(telemetry, telemetry')
                   /\ Payload(telemetry'[Len(telemetry')])
                         = WireRecord(Head(inbox[i]))
                   /\ \A j \in DOMAIN telemetry :
                         telemetry[j].id # telemetry'[Len(telemetry')].id]_vars

\* C7 witness: one message delivered three times has left three rows of the
\* same payload and different ids.
C7_Witness ==
    /\ Len(telemetry) = 3
    /\ \A j \in 1..3 : Payload(telemetry[j]) = Payload(telemetry[1])
    /\ \A j, k \in 1..3 : j # k => telemetry[j].id # telemetry[k].id

\* The three nodes, and what a row puts in them.
Live == <<v_temp, v_hum, v_sensor>>

LiveOf(row) == <<FromSql(row.temperature), FromSql(row.humidity),
                 FromSql(row.sensor)>>

\* C8 as amended: once a poll tick is complete, and until the next one reads
\* the log, the nodes hold (no client having written since the tick's read)
\* the fields of the row that was the newest when the tick read the log: the
\* newest row if nothing was appended since that read, the previous newest
\* one after an append.
C8_LiveIsRowSeen ==
    (m_pc \in {"sleep", "poll"} /\ ~ext_written /\ m_seen > 0)
    => Live = LiveOf(telemetry[m_seen])

\* C8 witness: a tick is complete and a row was appended after its read, so
\* the nodes hold the previous newest row, which differs from the newest.
C8_Witness ==
    /\ m_pc = "sleep" /\ ~ext_written
    /\ m_seen > 0 /\ Len(telemetry) = m_seen + 1
    /\ Live = LiveOf(telemetry[m_seen])
    /\ Live # LiveOf(telemetry[Len(telemetry)])

\* C8 as stated: when a poll tick completes, every append so far being
\* before that, the nodes hold the fields of the newest row.
C8_LiveIsNewestAtTickEnd ==
    [][(MirrorSetSensor /\ ~ext_written)
       => Live' = LiveOf(telemetry'[Len(telemetry')])]_vars

\* C9 as stated: a poll tick in which db_latest(1) or a set_value call fails
\* is skipped: the server goes on serving and sleeps until the next tick.
C9_TickFailureSkipped ==
    [][((MirrorPoll /\ ~db_latest(telemetry, storeUp, tables, 1).ok)
        \/ MirrorWriteFails)
       => (serving' /\ m_pc' = "sleep")]_vars

\* C10 as stated: after any reconnect of a subscriber's client the broker
\* again holds its subscription to the topic.
C10_ResubscribedAfterReconnect ==
    [][\A i \in Ingestors : Reconnect(i) => subscribed'[i]]_vars

\* A mapping with the four keys of which one has another type than the wire
\* format names: ts and sensor are strings, temperature and humidity JSON
\* numbers.
IsMistyped(m) ==
    /\ m.enc = "utf8" /\ m.syn = "json" /\ m.top = "object"
    /\ m.keys = AllKeys
    /\ \/ m.ts.k # "str"
       \/ m.sensor.k # "str"
       \/ m.temperature.k \notin {"int", "float"}
       \/ m.humidity.k \notin {"int", "float"}

\* A mapping that lacks one of the four keys.
LacksKey(m) ==
    /\ m.enc = "utf8" /\ m.syn = "json" /\ m.top = "object"
    /\ m.keys # AllKeys

\* C11 as stated: a message whose required keys are absent or mistyped (a
\* missing ts or sensor, a ts or sensor that is no string, a temperature or
\* humidity that is no JSON number) is logged as an error and discarded: the
\* log keeps its rows.
C11_MistypedDiscarded ==
    [][\A i \in Ingestors :
          (OnMessage(i)
           /\ (IsMistyped(Head(inbox[i])) \/ LacksKey(Head(inbox[i]))))
          => /\ telemetry' = telemetry
             /\ sub_log'[i] = "on_message error"]_vars

\* A write of an OPC UA client to one of the three nodes.
ExternalWrite ==
    \/ \E x \in ClientFloats : ExternalWriteTemp(x) \/ ExternalWriteHum(x)
    \/ \E x \in ClientStrings : ExternalWriteSensor(x)

\* C12 as amended: a client's write to a node never changes the log, and
\* the next poll tick that reads a row puts in each node, whatever a client
\* had written there, the field of the row that was the newest when the tick
\* read the log.
C12_ExternalWriteOverwritten ==
    [][/\ ExternalWrite => (telemetry' = telemetry /\ tables' = tables)
       /\ MirrorSetTemp => v_temp' = FromSql(telemetry[m_seen].temperature)
       /\ MirrorSetHum => v_hum' = FromSql(telemetry[m_seen].humidity)
       /\ MirrorSetSensor => v_sensor' = FromSql(telemetry[m_seen].sensor)]_vars

\* C12 witness: the server has replaced a value a client wrote; the tick is
\* complete and the nodes hold the row it read, no client's value among them.
C12_Witness ==
    /\ m_over
    /\ m_pc = "sleep" /\ ~ext_written /\ m_seen > 0
    /\ Live = LiveOf(telemetry[m_seen])
    /\ v_temp \notin ClientFloats /\ v_hum \notin ClientFloats
    /\ v_sensor \notin ClientStrings

\* C12 as stated: the poll tick after a client's write (the write before the
\* tick's read of the log) puts the newest row's field in the node written.
C12_OverwrittenWithNewest ==
    [][/\ (MirrorSetTemp /\ ~ext_written /\ v_temp \in ClientFloats)
          => v_temp' = FromSql(telemetry'[Len(telemetry')].temperature)
       /\ (MirrorSetHum /\ ~ext_written /\ v_hum \in ClientFloats)
          => v_hum' = FromSql(telemetry'[Len(telemetry')].humidity)
       /\ (MirrorSetSensor /\ ~ext_written /\ v_sensor \in ClientStrings)
          => v_sensor' = FromSql(telemetry'[Len(telemetry')].sensor)]_vars

\* C13: a poll tick whose db_latest(1) returns no row raises nothing and
\* leaves the three nodes as they were: the server goes on serving and
\* sleeps until the next tick.
C13_EmptyLogNoOp ==
    [][(/\ MirrorPoll
        /\ db_latest(telemetry, storeUp, tables, 1).ok
        /\ db_latest(telemetry, storeUp, tables, 1).rows = <<>>)
       => /\ Live' = Live
          /\ m_pc' = "sleep"
          /\ serving' = serving]_vars

\* C13 witness: a tick has read the empty log after a client wrote the
\* temperature node, which still holds the client's value, while the other
\* two nodes hold their initial values.
C13_Witness ==
    /\ telemetry = <<>> /\ m_seen = 0
    /\ m_pc = "sleep" /\ serving /\ ~ext_written
    /\ v_temp \in ClientFloats
    /\ v_hum = FloatV(0) /\ v_sensor = Str("sensor-001")

\* C14: when the database cannot be opened or written while on_message
\* handles a valid message, the error is logged, nothing is raised (the
\* subscriber stays in its loop), no row is written and the message is gone
\* from the subscriber, which keeps no copy to try again; a row only ever
\* enters the log in the on_message call that handles its message, with the
\* database available.
C14_StoreFailureDropsMessage ==
    [][/\ \A i \in Ingestors :
             (OnMessage(i) /\ ~storeUp /\ IsValidWire(Head(inbox[i])))
             => /\ telemetry' = telemetry
                /\ sub_log'[i] = "on_message error"
                /\ sub_pc'[i] = "loop"
                /\ inbox'[i] = Tail(inbox[i])
       /\ telemetry' # telemetry
             => \E i \in Ingestors :
                   /\ OnMessage(i) /\ storeUp
                   /\ telemetry' = InsertOf(Head(inbox[i]), telemetry,
                                            storeUp, tables).rows]_vars

\* C14 witness: the second subscriber, which is only ever fed a valid
\* reading, has logged an error and written nothing; it is in its loop with
\* the next message waiting and the database back.
C14_Witness ==
    /\ sub_log["sub-b"] = "on_message error"
    /\ sub_pc["sub-b"] = "loop"
    /\ inbox["sub-b"] = <<Reading0>>
    /\ telemetry = <<>>
    /\ storeUp

\* C15 as stated: an interrupt at a subscriber or at the OPC UA server
\* leaves the rows of the log as they were, releases the connection (the
\* subscriber's client is disconnected, the OPC UA server is stopped) and
\* the loop is left.
C15_GracefulShutdown ==
    [][/\ \A i \in Ingestors :
             SubInterrupt(i) => /\ telemetry' = telemetry
                                /\ sub_pc'[i] = "interrupted"
                                /\ ~sub_conn'[i]
       /\ MirrorInterrupt => /\ telemetry' = telemetry
                              /\ m_pc' = "stopped"
                              /\ ~serving']_vars

\* C16 as stated: when the publisher is interrupted, every message it has
\* sent is acknowledged and none is still kept for sending by the time the
\* network loop is stopped and the connection released; the connection is
\* released on the way out of the loop.
C16_AcksBeforeRelease ==
    [][PubInterrupt => /\ pub_unacked' = 0
                       /\ pub_queued' = <<>>
                       /\ ~pub_conn'
                       /\ pub_pc' = "stopped"]_vars

\* C17: a publish for which the client reports no success is logged as
\* failed and sends nothing in that call; the publisher makes no second
\* call for it but sleeps until the next tick, and its loop is left by an
\* interrupt only.
C17_EmitFailureNotFatal ==
    [][/\ \A m \in PublisherMsgs :
             (PubPublish(m) /\ ~pub_conn)
             => /\ pub_log' = "Publish failed"
                /\ pub_pc' = "sleep"
                /\ inbox' = inbox
                /\ pub_unacked' = pub_unacked
       /\ (pub_pc \in {"loop", "sleep"} /\ pub_pc' \notin {"loop", "sleep"})
             => PubInterrupt]_vars

\* C17 witness: after a publish that failed (the client still keeps its
\* message) the publisher has, a tick later, published the next reading.
C17_Witness ==
    /\ pub_pc = "sleep"
    /\ pub_log = "Published"
    /\ Len(pub_queued) = 1
    /\ pub_unacked = 1

\* C18: a dashboard read of window n on a log of k rows that db_latest
\* serves yields three lists of length min(n, k) each, oldest first:
\* position j of ts, temps and hums holds the ts, temperature and humidity
\* of one row, the j-th of the last min(n, k) rows in append order, which is
\* db_latest(n) reversed; the log is left as it was.
C18_WindowParallelOldestFirst ==
    [][\A n \in WindowSizes :
          (DashRead(n) /\ db_latest(telemetry, storeUp, tables, n).ok)
          => LET k == Min(n, Len(telemetry))
                 latest == db_latest(telemetry, storeUp, tables, n).rows
             IN /\ Len(d_ts') = k /\ Len(d_temps') = k /\ Len(d_hums') = k
                /\ \A j \in 1..k :
                      LET row == telemetry[Len(telemetry) - k + j]
                      IN /\ d_ts'[j] = FromSql(row.ts)
                         /\ d_temps'[j] = FromSql(row.temperature)
                         /\ d_hums'[j] = FromSql(row.humidity)
                         /\ d_ts'[j] = latest[k - j + 1][1]
                         /\ d_temps'[j] = latest[k - j + 1][3]
                         /\ d_hums'[j] = latest[k - j + 1][4]
                /\ telemetry' = telemetry /\ tables' = tables]_vars

\* C18 witness: the dashboard shows a window of two of a log of three rows,
\* the older of the two first, with different timestamps and temperatures.
C18_Witness ==
    /\ d_pc = "shown"
    /\ Len(telemetry) = 3
    /\ d_data = Newest(telemetry, 2)
    /\ d_ts = <<FromSql(telemetry[2].ts), FromSql(telemetry[3].ts)>>
    /\ d_ts[1] # d_ts[2]
    /\ d_temps[1] # d_temps[2]
    /\ Len(d_hums) = 2

\* C19: a db_init that fails at startup ends its process before the loop:
\* an aborted publisher stays aborted, connects and publishes nothing; an
\* aborted subscriber stays aborted, never connects, subscribes or appends;
\* an aborted OPC UA server stays aborted, never serves and never polls.
C19_InitFailureAborts ==
    [][/\ (PubInit /\ ~storeUp) => pub_pc' = "aborted"
       /\ \A i \in Ingestors : (SubInit(i) /\ ~storeUp) => sub_pc'[i] = "aborted"
       /\ (MirrorInit /\ ~storeUp) => m_pc' = "aborted"
       /\ pub_pc = "aborted"
             => /\ pub_pc' = "aborted" /\ ~pub_conn'
                /\ pub_unacked' = 0 /\ pub_queued' = <<>> /\ pub_log' = ""
                /\ ~\E m \in PublisherMsgs : PubPublish(m)
       /\ \A i \in Ingestors :
             sub_pc[i] = "aborted"
             => /\ sub_pc'[i] = "aborted"
                /\ ~sub_conn'[i] /\ ~subscribed'[i] /\ sub_log'[i] = ""
                /\ ~OnMessage(i)
       /\ m_pc = "aborted"
             => /\ m_pc' = "aborted" /\ ~serving'
                /\ m_rows' = <<>> /\ m_seen' = 0
                /\ ~MirrorPoll]_vars

\* C19 witness: the database was unreachable when the OPC UA server started
\* and it is aborted; the database is back, the publisher and the subscriber
\* run and a row is in the log, which nobody mirrors.
C19_Witness ==
    /\ m_pc = "aborted" /\ ~serving
    /\ storeUp
    /\ pub_pc \in {"loop", "sleep"}
    /\ sub_pc["sub-a"] = "loop"
    /\ telemetry # <<>>
    /\ Live = <<FloatV(0), FloatV(0), Str("sensor-001")>>

\* C20: a subscriber has at most one on_message call in progress, for the
\* message it took last; every message taken before has finished, having
\* committed its row or none; and the rows one subscriber committed lie in
\* the log in the order in which it took their messages, each with its
\* message's payload.
C20_OneMessageAtATime ==
    \A i \in Ingestors :
       /\ Len(h_taken[i]) = Len(h_done[i]) + (IF h_pc[i] = "idle" THEN 0 ELSE 1)
       /\ h_pc[i] # "idle" => h_msg[i] = h_taken[i][Len(h_taken[i])]
       /\ \A j \in DOMAIN h_done[i] :
             h_done[i][j] # 0
             => /\ h_done[i][j] \in DOMAIN telemetry
                /\ telemetry[h_done[i][j]].id = h_done[i][j]
                /\ Payload(telemetry[h_done[i][j]]) = WireRecord(h_taken[i][j])
       /\ \A j, k \in DOMAIN h_done[i] :
             (j < k /\ h_done[i][j] # 0 /\ h_done[i][k] # 0)
             => h_done[i][j] < h_done[i][k]

\* C20 witness: the first subscriber has committed a row, discarded a
\* message and committed another row, while the second subscriber's row
\* came between the two.
C20_Witness ==
    /\ h_done["sub-a"] = <<1, 0, 3>>
    /\ h_done["sub-b"] = <<2>>
    /\ Payload(telemetry[1]) = Payload(telemetry[3])
    /\ Payload(telemetry[1]) # Payload(telemetry[2])

\* C21 as stated: no client writing, whenever the server is serving the
\* three nodes hold either their initial values or the temperature,
\* humidity and sensor of one row of the log, also while a poll tick is in
\* progress.
C21_SnapshotConsistent ==
    serving => \/ Live = <<FloatV(0), FloatV(0), Str("sensor-001")>>
               \/ \E j \in DOMAIN telemetry : Live = LiveOf(telemetry[j])
====
